---- MODULE Spec2Model ----
(***************************************************************************)
(* A model of sankee's interactive Sankey plot (src/sankee/plotting.py):   *)
(* the construction of a SankeyPlot from a sample table, a label map and a *)
(* palette, the derivation of the edge dataframe and of the plot           *)
(* parameters, and the class-toggle and reset buttons of the GUI.          *)
(*                                                                         *)
(* Representation.  A DataFrame is a sequence of rows.  The sample table   *)
(* `data` is a sequence of rows, each a sequence of class codes, one per   *)
(* column; `columns` holds the column labels.  A period label is a string  *)
(* in the code and is used for two things only: equality and the           *)
(* lexicographic order in which groupby sorts its keys.  It is modelled by *)
(* its rank in that order, so <<2, 1, 3>> is a table whose first column's  *)
(* label sorts between those of the second and the third column.  A dict   *)
(* is a sequence of <<key, value>> pairs in insertion order.  Label and    *)
(* colour strings are modelled by numbers compared for equality only.      *)
(***************************************************************************)
EXTENDS Integers, Sequences, FiniteSets, TLC

\* ------------------------------------------------------------ bounds
NumClasses == 3
MaxPeriods == 3
MaxRows == 2
NumLabels == 2
NumColors == 2
MaxSmallRows == 1
MaxPairRows == 3

Classes == 1..NumClasses

VARIABLES
    raw,        \* the arguments SankeyPlot.__init__ was called with
    columns,    \* self.data.columns
    data,       \* self.data (after the merge of duplicate classes)
    labels,     \* self.labels
    palette,    \* self.palette
    hide,       \* self.hide, a list
    df,         \* self.df
    buttons,    \* the class toggle buttons of the GUI, in display order
    plot,       \* self.plot.data[0]: its link and node properties
    observed,   \* the values of (link, node) the figure widget pushed to the
                \* front end during the last handler, in order
    recording,  \* TRUE when a front end is attached and `observed` is kept
    last,       \* the last operation: "init", "toggle" or "reset"
    clicks,     \* the number of class-button clicks the last operation made
    err,        \* TRUE once a handler raised
    pc,         \* where a call of sankify or Dataset.sankify stands
    request,    \* the arguments of that call
    reply,      \* what the sampling service answered to getInfo()
    frame,      \* the local `data` of generate_sample_data
    error,      \* the exception the call raised, if any
    effects     \* the remote work done so far: images fetched, sampling calls

vars == <<raw, columns, data, labels, palette, hide, df, buttons, plot, observed,
          recording, last, clicks, err, pc, request, reply, frame, error, effects>>

\* The variables of the plot, and those of a call of sankify.
plotVars == <<raw, columns, data, labels, palette, hide, df, buttons, plot, observed,
              recording, last, clicks, err>>

callVars == <<pc, request, reply, frame, error, effects>>

\* ------------------------------------------------------------ sequences and dicts
Range(s) == {s[i] : i \in 1..Len(s)}

Perms(S) == {p \in [1..Cardinality(S) -> S] : \A i, j \in 1..Cardinality(S) : p[i] = p[j] => i = j}

SeqsUpTo(S, n) == UNION {[1..k -> S] : k \in 0..n}

\* A sequence written as a function, as an explicit tuple of its elements.
Tuple(s) == s \o <<>>

RECURSIVE SumSeq(_)
SumSeq(s) == IF s = <<>> THEN 0 ELSE Head(s) + SumSeq(Tail(s))

RECURSIVE Flatten(_)
Flatten(ss) == IF ss = <<>> THEN <<>> ELSE Head(ss) \o Flatten(Tail(ss))

\* The number of elements of s that satisfy Test.
Count(s, Test(_)) == Len(SelectSeq(s, Test))

\* The position of the first element of s that satisfies Test, 0 if none.
FirstIndex(s, Test(_)) ==
    IF \E i \in 1..Len(s) : Test(s[i])
    THEN CHOOSE i \in 1..Len(s) : Test(s[i]) /\ \A j \in 1..(i - 1) : ~Test(s[j])
    ELSE 0

\* drop_duplicates(): every element that did not occur earlier, in order.
RECURSIVE DropDuplicates(_)
DropDuplicates(s) ==
    IF s = <<>> THEN <<>>
    ELSE LET front == DropDuplicates(SubSeq(s, 1, Len(s) - 1))
             x == s[Len(s)]
         IN IF x \in Range(front) THEN front ELSE Append(front, x)

\* dict: keys(), `in`, and d[k].
Keys(d) == [i \in 1..Len(d) |-> d[i][1]]
HasKey(d, k) == \E i \in 1..Len(d) : d[i][1] = k
Get(d, k) == d[CHOOSE i \in 1..Len(d) : d[i][1] = k][2]

\* Lexicographic order on tuples of numbers of one length.
RECURSIVE LexLess(_, _)
LexLess(a, b) ==
    IF a = <<>> THEN FALSE
    ELSE Head(a) < Head(b) \/ (Head(a) = Head(b) /\ LexLess(Tail(a), Tail(b)))

\* The elements of a finite set of tuples in ascending lexicographic order.
RECURSIVE SortedKeys(_)
SortedKeys(S) ==
    IF S = {} THEN <<>>
    ELSE LET m == CHOOSE x \in S : \A y \in S \ {x} : LexLess(x, y)
         IN <<m>> \o SortedKeys(S \ {m})

Min(a, b) == IF a < b THEN a ELSE b

\* ------------------------------------------------------------ SankeyPlot._merge_duplicate_classes
\* zip(labels.keys(), labels.values(), palette.values()): the i-th key and label
\* of `labels` with the i-th value of `palette`, up to the shorter of the two.
ZipClasses(lab, pal) ==
    Tuple([i \in 1..Min(Len(lab), Len(pal)) |-> <<lab[i][1], lab[i][2], pal[i][2]>>])

\* The loop over the zipped classes.  running_map maps (color, label) to the
\* first key seen with that pair; remap maps each later key to that first key.
RECURSIVE MergeLoop(_, _, _)
MergeLoop(z, running_map, remap) ==
    IF z = <<>> THEN [running_map |-> running_map, remap |-> remap]
    ELSE IF HasKey(running_map, <<z[1][3], z[1][2]>>)
    THEN MergeLoop(Tail(z), running_map,
                   Append(remap, <<z[1][1], Get(running_map, <<z[1][3], z[1][2]>>)>>))
    ELSE MergeLoop(Tail(z), Append(running_map, <<<<z[1][3], z[1][2]>>, z[1][1]>>), remap)

\* DataFrame.replace(remap): every cell that is a key of remap becomes its value.
Replace(d, remap) ==
    Tuple([r \in 1..Len(d) |->
        Tuple([c \in 1..Len(d[r]) |->
            IF HasKey(remap, d[r][c]) THEN Get(remap, d[r][c]) ELSE d[r][c]])])

\* The distinct labels and colors with their values, and the remapped data.
Merged(d, rm, remap) ==
    [data |-> Replace(d, remap),
     labels |-> Tuple([i \in 1..Len(rm) |-> <<rm[i][2], rm[i][1][2]>>]),
     palette |-> Tuple([i \in 1..Len(rm) |-> <<rm[i][2], rm[i][1][1]>>])]

MergedBy(d, m) == Merged(d, m.running_map, m.remap)

merge_duplicate_classes(d, lab, pal) ==
    MergedBy(d, MergeLoop(ZipClasses(lab, pal), <<>>, <<>>))

\* ------------------------------------------------------------ SankeyPlot._generate_dataframe
\* `self` is a record of the fields the methods read: data, columns, labels,
\* palette and hide.

\* The position of the column labelled `label`.
ColPos(cols, label) == CHOOSE i \in 1..Len(cols) : cols[i] = label

\* utils.pairwise: the pairs of adjacent elements, in order.
pairwise(cols) == Tuple([i \in 1..(Len(cols) - 1) |-> <<cols[i], cols[i + 1]>>])

\* Mutation of hide_mask: the row holds a hidden class in every column.
hide_mask_all(row, h) == \E i \in 1..Len(h) : \A c \in 1..Len(row) : row[c] = h[i]

\* hide_mask: the row holds a hidden class in some column.
hide_mask(row, h) == \E i \in 1..Len(h) : \E c \in 1..Len(row) : row[c] = h[i]

\* data[~hide_mask]; `if self.hide` skips the mask for an empty list.
FilterHidden(d, h) ==
    IF h = <<>> THEN d ELSE SelectSeq(d, LAMBDA row : ~hide_mask(row, h))

\* Mutation of stored_data: the rows are dropped from the stored table.
stored_filtered(self, h) == FilterHidden(self.data, h)

\* self.data once _generate_dataframe has run for the hide list h: the rows
\* are dropped from `data`, a copy, and the stored table is left as it is.
stored_data(self, h) == self.data

\* zip([source] * len(data), [target] * len(data), data[source], data[target])
ZipPair(d, cols, source, target) ==
    Tuple([r \in 1..Len(d) |->
        <<source, target, d[r][ColPos(cols, source)], d[r][ColPos(cols, target)]>>])

\* Mutation of ZipPairs: only the first pair of columns is zipped.
ZipFirstPair(d, cols, pairs) == ZipPair(d, cols, pairs[1][1], pairs[1][2])

ZipPairs(d, cols, pairs) ==
    Flatten(Tuple([p \in 1..Len(pairs) |-> ZipPair(d, cols, pairs[p][1], pairs[p][2])]))

\* The list `permutations`: for every adjacent column pair, one tuple
\* (source_year, target_year, source, target) per row.
PermutationList(d, cols) == ZipPairs(d, cols, pairwise(cols))

\* Mutation of GroupSize: the periods of the tuple are not compared.
GroupSizeAnyYear(perms, key) ==
    Count(perms, LAMBDA t : t[3] = key[3] /\ t[4] = key[4])

\* groupby([...]).size(): the number of tuples equal to key.
GroupSize(perms, key) == Count(perms, LAMBDA t : t = key)

\* groupby(...).size().reset_index().rename(columns={0: "changed"}): one row
\* per distinct tuple, in ascending order of the tuples.
GroupedBy(perms, keys) ==
    Tuple([i \in 1..Len(keys) |->
        [source_year |-> keys[i][1], target_year |-> keys[i][2],
         source |-> keys[i][3], target |-> keys[i][4],
         changed |-> GroupSize(perms, keys[i])]])

Grouped(perms) == GroupedBy(perms, SortedKeys(Range(perms)))

\* Mutation of TotalOf: the groups are keyed on the source class alone.
TotalOfSource(g, e) ==
    SumSeq(Tuple([i \in 1..Len(g) |-> IF g[i].source = e.source THEN g[i].changed ELSE 0]))

\* groupby(["source_year", "source"]).changed.transform("sum") for row e of g.
TotalOf(g, e) ==
    SumSeq(Tuple([i \in 1..Len(g) |->
        IF g[i].source_year = e.source_year /\ g[i].source = e.source THEN g[i].changed ELSE 0]))

\* Mutation of build_link_label: the verb compares the labels of the classes.
build_link_label_by_label(source, target, changed, total, lab) ==
    [proportion |-> <<changed, total>>,
     source_label |-> Get(lab, source),
     verb |-> IF Get(lab, source) = Get(lab, target) THEN "remained" ELSE "became",
     target_label |-> Get(lab, target),
     text |-> <<<<changed, total>>, "of", Get(lab, source),
                IF Get(lab, source) = Get(lab, target) THEN "remained" ELSE "became",
                Get(lab, target)>>]

\* build_link_label: the hover text of a link, kept as its parts, and `text`,
\* the parts in the order the f-string writes them.
build_link_label(source, target, changed, total, lab) ==
    [proportion |-> <<changed, total>>,
     source_label |-> Get(lab, source),
     verb |-> IF source = target THEN "remained" ELSE "became",
     target_label |-> Get(lab, target),
     text |-> <<<<changed, total>>, "of", Get(lab, source),
                IF source = target THEN "remained" ELSE "became",
                Get(lab, target)>>]

\* A row of the dataframe: the group e with its total, the labels and colors of
\* its classes, and its link label.
DataframeRow(e, total, lab, pal) ==
    [source_year |-> e.source_year, target_year |-> e.target_year,
     source |-> e.source, target |-> e.target,
     changed |-> e.changed, total |-> total,
     source_label |-> Get(lab, e.source),
     target_label |-> Get(lab, e.target),
     source_color |-> Get(pal, e.source),
     target_color |-> Get(pal, e.target),
     link_label |-> build_link_label(e.source, e.target, e.changed, total, lab)]

DataframeOf(g, lab, pal) ==
    Tuple([i \in 1..Len(g) |-> DataframeRow(g[i], TotalOf(g, g[i]), lab, pal)])

generate_dataframe(self) ==
    DataframeOf(Grouped(PermutationList(FilterHidden(self.data, self.hide), self.columns)),
                self.labels, self.palette)

\* ------------------------------------------------------------ SankeyPlot._generate_plot_parameters
\* groupby(["year", "class"], sort=False).ngroup(): the number of the group of
\* row i, groups being numbered from 0 in order of first appearance.
GroupNumber(rows, first) ==
    Cardinality({<<rows[j].year, rows[j].class>> : j \in 1..(first - 1)})

\* Mutation of ngroup: the groups are keyed on the class alone.
ngroup_by_class(rows, i) ==
    GroupNumber(rows, FirstIndex(rows, LAMBDA x : x.class = rows[i].class))

ngroup(rows, i) ==
    GroupNumber(rows, FirstIndex(rows, LAMBDA x : x.year = rows[i].year /\ x.class = rows[i].class))

\* Mutation of SourcesThenTargets: the targets come first.
TargetsThenSources(d) ==
    Tuple([i \in 1..Len(d) |-> [class |-> d[i].target, year |-> d[i].target_year]])
    \o Tuple([i \in 1..Len(d) |-> [class |-> d[i].source, year |-> d[i].source_year]])

\* The (class, year) columns of the sources, then of the targets.
SourcesThenTargets(d) ==
    Tuple([i \in 1..Len(d) |-> [class |-> d[i].source, year |-> d[i].source_year]])
    \o Tuple([i \in 1..Len(d) |-> [class |-> d[i].target, year |-> d[i].target_year]])

WithColorAndId(rows, pal) ==
    Tuple([i \in 1..Len(rows) |->
        [class |-> rows[i].class, year |-> rows[i].year,
         color |-> Get(pal, rows[i].class), id |-> ngroup(rows, i)]])

\* The table all_classes before the join with the class counts: the distinct
\* (class, year) rows of the sources followed by the targets, with color and id.
AllClasses(d, pal) == WithColorAndId(DropDuplicates(SourcesThenTargets(d)), pal)

\* Mutation of MergeId: the join is on the class alone.
MergeIdByClass(all_classes, year, class) ==
    all_classes[FirstIndex(all_classes, LAMBDA x : x.class = class)].id

\* pd.merge(left=df, right=all_classes, how="left", ...)["id"] for one row.
MergeId(all_classes, year, class) ==
    all_classes[FirstIndex(all_classes, LAMBDA x : x.year = year /\ x.class = class)].id

\* self.data.melt(var_name="year").groupby(["year", "value"]).size(): the number
\* of rows of the stored (unfiltered) table that hold `class` in column `year`.
MeltedCount(table, cols, year, class) ==
    Count(table, LAMBDA row : row[ColPos(cols, year)] = class)

\* all_classes.merge(melted, ...): the inner join keeps the rows that have a
\* count, in order, and adds the count.
WithCounts(joined, table, cols) ==
    Tuple([i \in 1..Len(joined) |->
        [class |-> joined[i].class, year |-> joined[i].year,
         color |-> joined[i].color, id |-> joined[i].id,
         count |-> MeltedCount(table, cols, joined[i].year, joined[i].class),
         year_count |-> Len(table)]])

MergeCounts(ac, table, cols) ==
    WithCounts(SelectSeq(ac, LAMBDA x : MeltedCount(table, cols, x.year, x.class) > 0),
               table, cols)

\* The SankeyParameters built from the dataframe d, the table all_classes before
\* the join (ac) and after it (nodes).
Parameters(d, ac, nodes) ==
    [node_labels |-> Tuple([i \in 1..Len(nodes) |-> nodes[i].year]),
     link_labels |-> Tuple([i \in 1..Len(d) |-> d[i].link_label]),
     node_palette |-> Tuple([i \in 1..Len(nodes) |-> nodes[i].color]),
     link_palette |-> Tuple([i \in 1..Len(d) |-> d[i].source_color]),
     source |-> Tuple([i \in 1..Len(d) |-> MergeId(ac, d[i].source_year, d[i].source)]),
     target |-> Tuple([i \in 1..Len(d) |-> MergeId(ac, d[i].target_year, d[i].target)]),
     value |-> Tuple([i \in 1..Len(d) |-> d[i].changed]),
     all_classes |-> nodes]

ParametersWith(self, d, ac) == Parameters(d, ac, MergeCounts(ac, self.data, self.columns))

generate_plot_parameters(self, d) == ParametersWith(self, d, AllClasses(d, self.palette))

\* ------------------------------------------------------------ SankeyPlot._generate_sankey
\* The go.Sankey trace: its link and node properties.  go.Sankey() has neither.
\* A node also keeps the row of all_classes it was built from (class, id, count),
\* which plotly does not receive.
EmptySankey == [link |-> <<>>, node |-> <<>>]

Trace(params) ==
    [link |-> Tuple([i \in 1..Len(params.source) |->
                  [source |-> params.source[i], target |-> params.target[i],
                   value |-> params.value[i], color |-> params.link_palette[i],
                   customdata |-> params.link_labels[i]]]),
     node |-> Tuple([i \in 1..Len(params.all_classes) |->
                  [customdata |-> params.node_labels[i],
                   color |-> params.node_palette[i],
                   class |-> params.all_classes[i].class,
                   id |-> params.all_classes[i].id,
                   count |-> params.all_classes[i].count,
                   year_count |-> params.all_classes[i].year_count]])]

SankeyOf(self, d) ==
    IF Len(d) = 0 THEN EmptySankey ELSE Trace(generate_plot_parameters(self, d))

WithSankey(self, d) == [df |-> d, sankey |-> SankeyOf(self, d)]

\* self.df = self._generate_dataframe(), and the trace built from it.
generate_sankey(self) == WithSankey(self, generate_dataframe(self))

\* ------------------------------------------------------------ SankeyPlot._get_sorted_classes
\* Counts are kept as fractions <<numerator, denominator>>: the mean of a
\* column need not be a whole number.
FracGreater(a, b) == a[1] * b[2] > b[1] * a[2]

\* start_count: groupby("source").mean() of `total`, over the rows of every year.
MeanTotal(rows) == <<SumSeq(Tuple([i \in 1..Len(rows) |-> rows[i].total])), Len(rows)>>

start_count(d, c) == MeanTotal(SelectSeq(d, LAMBDA e : e.source = c))

\* end_count: groupby("target").sum() of `changed`.
end_count(d, c) ==
    SumSeq(Tuple([i \in 1..Len(d) |-> IF d[i].target = c THEN d[i].changed ELSE 0]))

\* total_count: the two counts of a class added up.
AddCounts(s, e, isSource, isTarget) ==
    IF isSource /\ isTarget THEN <<s[1] + e * s[2], s[2]>>
    ELSE IF isSource THEN s
    ELSE <<e, 1>>

total_count(d, c) ==
    AddCounts(start_count(d, c), end_count(d, c),
              \E i \in 1..Len(d) : d[i].source = c, \E i \in 1..Len(d) : d[i].target = c)

\* self.df[["source", "target"]].melt().value.unique(), as a set.
get_active_classes(d) ==
    {d[i].source : i \in 1..Len(d)} \cup {d[i].target : i \in 1..Len(d)}

\* sort_values(by="count", ascending=False) of the classes, which groupby left
\* in ascending order; classes of equal count keep that order.  `count` maps
\* each class to its total count.
Before(count, x, y) ==
    FracGreater(count[x], count[y]) \/ (~FracGreater(count[y], count[x]) /\ x < y)

Largest(count, S) == CHOOSE x \in S : \A y \in S \ {x} : Before(count, x, y)

RECURSIVE SortByCount(_, _)
SortByCount(count, S) ==
    IF S = {} THEN <<>>
    ELSE <<Largest(count, S)>> \o SortByCount(count, S \ {Largest(count, S)})

get_sorted_classes(d) ==
    SortByCount([c \in get_active_classes(d) |-> total_count(d, c)], get_active_classes(d))

\* ------------------------------------------------------------ SankeyPlot._generate_gui
\* One ColorToggleButton per class of unique_classes, in that order.  `class` is
\* the loop variable the button was built for; the widget keeps only the
\* tooltip, the color and the state.
ButtonsFor(self, unique_classes, active_classes) ==
    Tuple([i \in 1..Len(unique_classes) |->
        [class |-> unique_classes[i],
         tooltip |-> Get(self.labels, unique_classes[i]),
         on_color |-> Get(self.palette, unique_classes[i]),
         state |-> unique_classes[i] \in active_classes]])

MakeButtons(self, d) == ButtonsFor(self, get_sorted_classes(d), get_active_classes(d))

\* ColorToggleButton.toggle: the state flips.
toggle(button) == [button EXCEPT !.state = ~button.state]

\* next(key for key in self.labels.keys() if self.labels[key] == class_name):
\* the first key, in key order, that carries the label; 0 stands for
\* StopIteration.
KeyAt(lab, i) == IF i = 0 THEN 0 ELSE lab[i][1]

ClassIdOf(lab, class_name) == KeyAt(lab, FirstIndex(lab, LAMBDA kv : kv[2] = class_name))

\* Mutation of RemoveAt: the first element is removed, whatever i is.
RemoveHead(l, i) == Tail(l)

\* list.remove(x): the list without the first occurrence of x.
RemoveAt(l, i) == SubSeq(l, 1, i - 1) \o SubSeq(l, i + 1, Len(l))

ListRemove(l, x) == RemoveAt(l, FirstIndex(l, LAMBDA y : y = x))

\* The assignments of update_plot: the link of the new trace g.sankey is
\* assigned to the figure widget, then its node; the widget sends each
\* assignment to the front end as it is made.
Swap(st, g) ==
    [st EXCEPT !.df = g.df,
               !.plot = g.sankey,
               !.observed = IF st.recording
                            THEN st.observed \o <<[link |-> g.sankey.link, node |-> st.plot.node],
                                                  [link |-> g.sankey.link, node |-> g.sankey.node]>>
                            ELSE st.observed]

\* Mutation of update_plot: nothing is swapped in when no edge is left.
update_plot_unless_empty(static, st, h) ==
    IF generate_dataframe([static EXCEPT !.hide = h]) = <<>>
    THEN [st EXCEPT !.hide = h]
    ELSE Swap([st EXCEPT !.hide = h], generate_sankey([static EXCEPT !.hide = h]))

\* update_plot, for the hide list h.
update_plot(static, st, h) ==
    Swap([st EXCEPT !.hide = h], generate_sankey([static EXCEPT !.hide = h]))

\* The body of toggle_button after button.toggle(): `on` is the new state of
\* the button and class_id the class found for its tooltip.
HideOrShow(static, st, on, class_id) ==
    IF class_id = 0 \/ (on /\ class_id \notin Range(st.hide))
    THEN [st EXCEPT !.err = TRUE]
    ELSE update_plot(static, st,
                     IF ~on THEN Append(st.hide, class_id) ELSE ListRemove(st.hide, class_id))

\* toggle_button(button) for the b-th button.  `static` holds data, columns,
\* labels and palette; `st` holds hide, buttons, df, plot, observed, err and
\* whether a front end is recording.
toggle_button(static, st, b) ==
    HideOrShow(static, [st EXCEPT !.buttons[b] = toggle(st.buttons[b])],
               ~st.buttons[b].state, ClassIdOf(static.labels, st.buttons[b].tooltip))

\* Mutation of reset_plot: only the b-th button is looked at.
reset_one(static, st, b) ==
    IF b <= Len(st.buttons) /\ ~st.buttons[b].state THEN toggle_button(static, st, b) ELSE st

\* reset_plot: every button that is off is clicked, in display order.
RECURSIVE reset_plot(_, _, _)
reset_plot(static, st, b) ==
    IF b > Len(st.buttons) THEN st
    ELSE reset_plot(static,
                    IF ~st.buttons[b].state THEN toggle_button(static, st, b) ELSE st,
                    b + 1)

\* ------------------------------------------------------------ the state machine
Static == [data |-> data, columns |-> columns, labels |-> labels, palette |-> palette,
           hide |-> hide]

\* The state a handler starts from; what the front end observed is kept per
\* handler.
State == [hide |-> hide, buttons |-> buttons, df |-> df, plot |-> plot,
          observed |-> <<>>, err |-> err, recording |-> recording]

SetState(st) ==
    /\ hide' = st.hide
    /\ buttons' = st.buttons
    /\ df' = st.df
    /\ plot' = st.plot
    /\ observed' = st.observed
    /\ err' = st.err

\* The sample tables of 2..maxPeriods columns and up to maxRows rows of class
\* codes; the column labels are distinct and either in ascending order or, with
\* anyOrder, in any order.
Tables(maxPeriods, maxRows, anyOrder) ==
    UNION {{[columns |-> cols, data |-> d] :
                cols \in IF anyOrder THEN Perms(1..n) ELSE {[i \in 1..n |-> i]},
                d \in SeqsUpTo([1..n -> Classes], maxRows)} :
           n \in 2..maxPeriods}

\* Label and color strings are compared for equality only, so of the maps that
\* differ by a renaming of their values one is kept: the one whose values
\* appear in ascending order of first use.
Canonical(m) ==
    \A i \in 1..Len(m) : \A v \in 1..(m[i][2] - 1) : \E j \in 1..(i - 1) : m[j][2] = v

\* The maps over all the classes with keys in the given orders.
Maps(orders, values) ==
    {m \in {[i \in 1..NumClasses |-> <<order[i], val[order[i]]>>] :
                order \in orders, val \in [Classes -> values]} : Canonical(m)}

\* The map that gives class k the value k.
IdentityMap == [k \in 1..NumClasses |-> <<k, k>>]

\* Tables whose column labels ascend and whose classes have distinct labels
\* and colors.
TableInputs ==
    {[columns |-> t.columns, data |-> t.data, labels |-> IdentityMap, palette |-> IdentityMap] :
        t \in Tables(MaxPeriods, MaxRows, FALSE)}

\* Two-column tables of more rows.
PairInputs ==
    {[columns |-> <<1, 2>>, data |-> d, labels |-> IdentityMap, palette |-> IdentityMap] :
        d \in SeqsUpTo([1..2 -> Classes], MaxPairRows)}

\* Small tables whose column labels are in any order.
PeriodInputs ==
    {[columns |-> t.columns, data |-> t.data, labels |-> IdentityMap, palette |-> IdentityMap] :
        t \in Tables(MaxPeriods, MaxSmallRows, TRUE)}

\* Small two-column tables with a label map in any key order and a palette
\* written in ascending key order.
CatalogInputs ==
    {[columns |-> <<1, 2>>, data |-> d, labels |-> lab, palette |-> pal] :
        d \in SeqsUpTo([1..2 -> Classes], MaxSmallRows),
        lab \in Maps(Perms(Classes), 1..NumLabels),
        pal \in Maps({[i \in 1..NumClasses |-> i]}, 1..NumColors)}

Inputs == TableInputs \cup PairInputs \cup PeriodInputs \cup CatalogInputs

\* SankeyPlot.__init__ called with `in`.
Construct(in) ==
    /\ raw = in
    /\ columns = in.columns
    /\ \E m \in {merge_duplicate_classes(in.data, in.labels, in.palette)} :
           data = m.data /\ labels = m.labels /\ palette = m.palette
    /\ hide = <<>>
    /\ df = generate_dataframe(Static)
    /\ plot = SankeyOf(Static, df)
    /\ buttons = MakeButtons(Static, df)
    /\ last = "init"
    /\ clicks = 0
    /\ err = FALSE

\* No call of sankify is under way: the plot was built from a table directly.
NoCall ==
    /\ pc = "plotted"
    /\ request = <<>>
    /\ reply = <<>>
    /\ frame = <<>>
    /\ error = <<>>
    /\ effects = <<>>

Init ==
    /\ \E in \in Inputs : Construct(in)
    /\ recording = FALSE
    /\ observed = <<>>
    /\ NoCall

\* The same, with a front end attached that records what the widget sends it.
InitRender ==
    /\ \E in \in {x \in TableInputs : Len(x.columns) = 2} : Construct(in)
    /\ recording = TRUE
    /\ observed = <<plot>>
    /\ NoCall

\* A click on the b-th class button.
Toggle(b) ==
    /\ ~err
    /\ \E st \in {toggle_button(Static, State, b)} :
           SetState(st) /\ data' = stored_data(Static, st.hide)
    /\ last' = "toggle"
    /\ clicks' = 1
    /\ UNCHANGED <<raw, columns, labels, palette, recording>>
    /\ UNCHANGED callVars

\* A click on the reset button.
Reset ==
    /\ ~err
    /\ \E st \in {reset_plot(Static, State, 1)} :
           SetState(st) /\ data' = stored_data(Static, st.hide)
    /\ last' = "reset"
    /\ clicks' = Cardinality({b \in 1..Len(buttons) : ~buttons[b].state})
    /\ UNCHANGED <<raw, columns, labels, palette, recording>>
    /\ UNCHANGED callVars

Next ==
    \/ \E b \in 1..Len(buttons) : Toggle(b)
    \/ Reset

Spec == Init /\ [][Next]_vars

SpecRender == InitRender /\ [][Next]_vars

\* ------------------------------------------------------------ the diagram a table stands for
\* What follows is stated from the sample table alone, without the operators
\* that model the code.

\* The classes named in self.hide.
Hidden == Range(hide)

\* The rows of table d that hold no class of H in any column.
Retained(d, H) == SelectSeq(d, LAMBDA row : \A c \in 1..Len(row) : row[c] \notin H)

\* The number of rows of d with class s in the c-th column, and with class t in
\* the next column as well.
RowsWith(d, c, s) == Cardinality({r \in 1..Len(d) : d[r][c] = s})

RowsWithPair(d, c, s, t) == Cardinality({r \in 1..Len(d) : d[r][c] = s /\ d[r][c + 1] = t})

\* The transitions of d: an adjacent column pair and a class pair some row has.
Transitions(d) ==
    {x \in (1..(Len(columns) - 1)) \X Classes \X Classes : RowsWithPair(d, x[1], x[2], x[3]) > 0}

\* The edges of d as <<source period, target period, source, target, count, total>>.
DerivedEdges(d) ==
    {<<columns[x[1]], columns[x[1] + 1], x[2], x[3],
       RowsWithPair(d, x[1], x[2], x[3]), RowsWith(d, x[1], x[2])>> : x \in Transitions(d)}

\* The links of d as <<source period, source, target period, target, count>>.
DerivedLinks(d) ==
    {<<columns[x[1]], x[2], columns[x[1] + 1], x[3], RowsWithPair(d, x[1], x[2], x[3])>> :
        x \in Transitions(d)}

\* The (period, class) pairs that occur in d.
DerivedNodes(d) == {<<columns[c], d[r][c]>> : r \in 1..Len(d), c \in 1..Len(columns)}

\* The edges of a dataframe, in the same form.
EdgesOf(d) ==
    {<<d[i].source_year, d[i].target_year, d[i].source, d[i].target, d[i].changed, d[i].total>> :
        i \in 1..Len(d)}

\* A link of a trace names its two nodes by their position in the node arrays.
Resolves(p) ==
    \A i \in 1..Len(p.link) :
        /\ p.link[i].source + 1 \in 1..Len(p.node)
        /\ p.link[i].target + 1 \in 1..Len(p.node)

\* The links and the nodes a trace displays.
DisplayedLinks(p) ==
    {<<p.node[p.link[i].source + 1].customdata, p.node[p.link[i].source + 1].class,
       p.node[p.link[i].target + 1].customdata, p.node[p.link[i].target + 1].class,
       p.link[i].value>> : i \in 1..Len(p.link)}

DisplayedNodes(p) == {<<p.node[i].customdata, p.node[i].class>> : i \in 1..Len(p.node)}

\* The trace p displays the table d, each link and each node once.
Displays(p, d) ==
    /\ Resolves(p)
    /\ DisplayedLinks(p) = DerivedLinks(d)
    /\ DisplayedNodes(p) = DerivedNodes(d)
    /\ Len(p.link) = Cardinality(DerivedLinks(d))
    /\ Len(p.node) = Cardinality(DerivedNodes(d))

\* ------------------------------------------------------------ C1
\* C1: the edges of the dataframe are exactly the transitions of the retained
\* table: for each pair of adjacent columns and each class pair (s, t) there is
\* one edge iff some retained row has s in the first column and t in the second;
\* its count is the number of such rows and its total the number of retained
\* rows with s in the first column.  Every edge runs from a column to the next.
C1_EdgesAreAdjacentTransitions ==
    /\ EdgesOf(df) = DerivedEdges(Retained(data, Hidden))
    /\ Len(df) = Cardinality(DerivedEdges(Retained(data, Hidden)))
    /\ \A i \in 1..Len(df) :
           \E c \in 1..(Len(columns) - 1) :
               df[i].source_year = columns[c] /\ df[i].target_year = columns[c + 1]

\* Three periods, and a source class that splits over two targets.
C1_Witness ==
    /\ Len(columns) = 3
    /\ \E i \in 1..Len(df) : df[i].total = 2 /\ df[i].changed = 1

\* ------------------------------------------------------------ C2
\* C2: for every (source period, source class) with an edge, the counts of its
\* outgoing edges add up to its total, which is positive, and the proportion of
\* each edge is its count over that total; in every state hide and show reach.
C2_OutgoingCountsSumToTotal ==
    \A i \in 1..Len(df) :
        /\ df[i].total > 0
        /\ df[i].link_label.proportion = <<df[i].changed, df[i].total>>
        /\ SumSeq([j \in 1..Len(df) |->
               IF df[j].source_year = df[i].source_year /\ df[j].source = df[i].source
               THEN df[j].changed ELSE 0]) = df[i].total

\* After a hide, a source class with two outgoing edges.
C2_Witness ==
    /\ last = "toggle"
    /\ hide # <<>>
    /\ \E i, j \in 1..Len(df) :
           /\ i # j
           /\ df[i].source_year = df[j].source_year
           /\ df[i].source = df[j].source

\* ------------------------------------------------------------ C3
\* C3: the node ids are a bijection with the (period, class) pairs of the
\* retained table: every pair has exactly one node, no two nodes share an id,
\* and every node belongs to a pair of the table.
C3_NodeIdsAreABijection ==
    /\ \A pair \in DerivedNodes(Retained(data, Hidden)) :
           Cardinality({i \in 1..Len(plot.node) :
               <<plot.node[i].customdata, plot.node[i].class>> = pair}) = 1
    /\ \A i, j \in 1..Len(plot.node) : plot.node[i].id = plot.node[j].id => i = j
    /\ \A i \in 1..Len(plot.node) :
           <<plot.node[i].customdata, plot.node[i].class>> \in DerivedNodes(Retained(data, Hidden))

\* The same class is a node of two periods, with a class hidden.
C3_Witness ==
    /\ hide # <<>>
    /\ \E i, j \in 1..Len(plot.node) :
           /\ plot.node[i].class = plot.node[j].class
           /\ plot.node[i].customdata # plot.node[j].customdata

\* ------------------------------------------------------------ C4
\* The size of a node: the retained rows with its class in its period.
NodeSize(n) ==
    RowsWith(Retained(data, Hidden), CHOOSE c \in 1..Len(columns) : columns[c] = n.customdata,
             n.class)

\* C4 as stated: node ids descend with node size: of two nodes the one with
\* the smaller id is at least as large.
C4_IdsDescendWithSize ==
    \A i, j \in 1..Len(plot.node) :
        plot.node[i].id < plot.node[j].id => NodeSize(plot.node[i]) >= NodeSize(plot.node[j])

\* The end points of the edges: the sources of all the edges, then their targets.
Endpoints(d) ==
    [i \in 1..(2 * Len(d)) |->
        IF i <= Len(d) THEN <<d[i].source_year, d[i].source>>
        ELSE <<d[i - Len(d)].target_year, d[i - Len(d)].target>>]

\* The number of distinct pairs of e before the first occurrence of pair.
PairsBefore(e, pair) ==
    Cardinality({e[k] : k \in 1..((CHOOSE i \in 1..Len(e) : e[i] = pair /\ \A j \in 1..(i - 1) : e[j] # pair) - 1)})

\* C4, amended: node ids follow first appearance, not size.  The edges are in
\* ascending order of (source period label, target period label, source class,
\* target class); the id of a node is the number of distinct (period, class)
\* pairs that come before it in the list of the sources of all the edges
\* followed by the targets of all the edges.
C4_IdsFollowFirstAppearance ==
    /\ \A i, j \in 1..Len(df) :
           i < j => LexLess(<<df[i].source_year, df[i].target_year, df[i].source, df[i].target>>,
                            <<df[j].source_year, df[j].target_year, df[j].source, df[j].target>>)
    /\ \A i \in 1..Len(plot.node) :
           /\ <<plot.node[i].customdata, plot.node[i].class>> \in Range(Endpoints(df))
           /\ plot.node[i].id = PairsBefore(Endpoints(df), <<plot.node[i].customdata, plot.node[i].class>>)

\* A node with a smaller id than a larger node.
C4_Witness ==
    \E i, j \in 1..Len(plot.node) :
        /\ plot.node[i].id < plot.node[j].id
        /\ NodeSize(plot.node[i]) < NodeSize(plot.node[j])

\* ------------------------------------------------------------ C5
\* C5: after any toggle or reset the plot displays exactly the links and nodes
\* of the rows of the stored table that hold no class of self.hide in any
\* column, and the stored table is the one it was.
C5_PlotDisplaysRetainedRows ==
    [][data' = data /\ Displays(plot', Retained(data', Range(hide')))]_vars

\* A stored row holds a hidden class in one column and a visible class in
\* another, and some rows are still displayed.
C5_Witness ==
    /\ last = "toggle"
    /\ plot.link # <<>>
    /\ \E r \in 1..Len(data) : \E c, k \in 1..Len(columns) :
           data[r][c] \in Hidden /\ data[r][k] \notin Hidden

\* ------------------------------------------------------------ C6
\* C6: after a reset no class is hidden, every button is on, and the dataframe
\* and the plot are those of the whole stored table.
C6_ResetRestoresUnfiltered ==
    last = "reset" =>
        /\ ~err
        /\ hide = <<>>
        /\ \A b \in 1..Len(buttons) : buttons[b].state
        /\ EdgesOf(df) = DerivedEdges(data)
        /\ Displays(plot, data)

\* A reset that clicked two buttons.
C6_Witness ==
    /\ last = "reset"
    /\ clicks >= 2
    /\ plot.link # <<>>

\* ------------------------------------------------------------ C7
\* The state after a click on the b-th button followed by another.
HideThenShow(b) == toggle_button(Static, toggle_button(Static, State, b), b)

\* C7: in every reachable state, for every button that is on, a click that
\* hides its class followed by a click that shows it leaves self.hide, the
\* buttons, the dataframe and the plot as they were, and raises nothing.
C7_HideThenShowRestores ==
    ~err =>
        \A b \in 1..Len(buttons) :
            buttons[b].state =>
                /\ ~HideThenShow(b).err
                /\ HideThenShow(b).hide = hide
                /\ HideThenShow(b).buttons = buttons
                /\ HideThenShow(b).df = df
                /\ HideThenShow(b).plot = plot

\* Another class is hidden already, and hiding the class changes the plot.
C7_Witness ==
    /\ hide # <<>>
    /\ \E b \in 1..Len(buttons) :
           /\ buttons[b].state
           /\ toggle_button(Static, State, b).plot # plot
           /\ HideThenShow(b).plot = plot

\* ------------------------------------------------------------ C8
\* C8: no toggle and no reset raises; one that leaves no retained row leaves a
\* plot without links and nodes, and one that starts there and retains rows
\* again displays them.
C8_EmptyTableIsRendered ==
    [][/\ ~err'
       /\ Retained(data', Range(hide')) = <<>> => plot'.link = <<>> /\ plot'.node = <<>>
       /\ (Retained(data, Hidden) = <<>> /\ Retained(data', Range(hide')) # <<>>) =>
              (plot'.link # <<>> /\ Displays(plot', Retained(data', Range(hide'))))]_vars

\* The last click hid every row of a table that has rows.
C8_Witness ==
    /\ last = "toggle"
    /\ data # <<>>
    /\ Retained(data, Hidden) = <<>>
    /\ plot.link = <<>>
    /\ plot.node = <<>>

\* ------------------------------------------------------------ C9
\* The classes of a set as a list.
RECURSIVE ListOf(_)
ListOf(S) == IF S = {} THEN <<>> ELSE <<CHOOSE x \in S : TRUE>> \o ListOf(S \ {CHOOSE x \in S : TRUE})

\* The trace of the plot when the classes H are hidden.
TraceWithHidden(H) == generate_sankey([Static EXCEPT !.hide = ListOf(H)]).sankey

\* C9: whatever the front end is sent is the trace of one filter state: its
\* links and its nodes are those of the same set of hidden classes.
C9_NoHalfUpdatedPlot ==
    \A i \in 1..Len(observed) :
        \E H \in SUBSET Classes :
            /\ observed[i].link = TraceWithHidden(H).link
            /\ observed[i].node = TraceWithHidden(H).node

\* ------------------------------------------------------------ C10
\* The first code, in the key order of the label map, that has the label and
\* the color of code k.
FirstSame(lab, pal, k) ==
    lab[CHOOSE i \in 1..Len(lab) :
            /\ lab[i][2] = Get(lab, k) /\ Get(pal, lab[i][1]) = Get(pal, k)
            /\ \A j \in 1..(i - 1) : ~(lab[j][2] = Get(lab, k) /\ Get(pal, lab[j][1]) = Get(pal, k))][1]

\* C10: the stored table is the table SankeyPlot was given with every code
\* replaced by the first code of the label map that has the same label and the
\* same color, so its edges are those of that table.
C10_MergeRewritesToFirstCode ==
    /\ data = [r \in 1..Len(raw.data) |->
                  [c \in 1..Len(raw.data[r]) |-> FirstSame(raw.labels, raw.palette, raw.data[r][c])]]
    /\ last = "init" =>
           EdgesOf(df) = DerivedEdges([r \in 1..Len(raw.data) |->
                  [c \in 1..Len(raw.data[r]) |-> FirstSame(raw.labels, raw.palette, raw.data[r][c])]])

\* ------------------------------------------------------------ C11
\* C11: the description of every edge has the verb "remained" iff the source
\* class code of the edge equals its target class code, and "became" otherwise;
\* it reads proportion, "of", source label, verb, target label, in that order,
\* and it is the hover text of the link of the plot.
C11_VerbFollowsClassCodes ==
    /\ \A i \in 1..Len(df) :
           /\ df[i].link_label.text[4] = "remained" <=> df[i].source = df[i].target
           /\ df[i].link_label.text[4] = "became" <=> df[i].source # df[i].target
           /\ df[i].link_label.text =
                  <<<<df[i].changed, df[i].total>>, "of", Get(labels, df[i].source),
                    df[i].link_label.text[4], Get(labels, df[i].target)>>
    /\ Len(plot.link) = Len(df)
    /\ \A i \in 1..Len(plot.link) : plot.link[i].customdata = df[i].link_label

\* An edge between two distinct classes that carry the same label.
C11_Witness ==
    \E i \in 1..Len(df) :
        /\ df[i].source # df[i].target
        /\ df[i].source_label = df[i].target_label
        /\ df[i].link_label.text[4] = "became"

\* ------------------------------------------------------------ a call of sankify
\* Representation.  An optional argument is <<>> for None and <<x>> for the
\* value x.  A string that is searched is a sequence of characters.  A period
\* label is <<"int", n>> for the number n and <<"str", n>> for the string that
\* writes n in digits.  An image is a record of its id and its set of bands.
\* An exception is a record: its class, what it is about, the names it lists
\* and, for an error of the sampling service, its message.
MaxImages == 2
MaxYears == 3
MaxPoints == 2
NumCodes == 3

None == <<>>

Some(x) == <<x>>

Codes == 1..NumCodes

\* str(label)
Str(label) == <<"str", label[2]>>

\* list(range(n))
RangeList(n) == [i \in 1..n |-> <<"int", i - 1>>]

\* Mutation of HasDuplicates: only neighbours are compared.
HasAdjacentDuplicates(l) == \E i \in 1..(Len(l) - 1) : l[i] = l[i + 1]

\* len(set(l)) != len(l)
HasDuplicates(l) == Cardinality(Range(l)) # Len(l)

\* Mutation of Sorted: the numbers come in descending order.
RECURSIVE Descending(_)
Descending(S) ==
    IF S = {} THEN <<>>
    ELSE <<CHOOSE x \in S : \A y \in S : x >= y>>
         \o Descending(S \ {CHOOSE x \in S : \A y \in S : x >= y})

\* sorted(S) for a set of numbers
RECURSIVE Sorted(_)
Sorted(S) ==
    IF S = {} THEN <<>>
    ELSE <<CHOOSE x \in S : \A y \in S : x <= y>>
         \o Sorted(S \ {CHOOSE x \in S : \A y \in S : x <= y})

\* needle in hay, for strings
Contains(hay, needle) ==
    \E i \in 0..(Len(hay) - Len(needle)) : SubSeq(hay, i + 1, i + Len(needle)) = needle

Exception(type, what, names, message) ==
    [type |-> type, what |-> what, names |-> names, message |-> message]

NoException == Exception("", "", <<>>, <<>>)

NoEffects == [fetched |-> <<>>, sampling |-> 0]

\* ------------------------------------------------------------ Dataset.sankify
\* Dataset.get_year: the image of the year, with the no-data class of the
\* dataset masked and the band of the dataset selected.
get_year(dataset, year) == [id |-> year, bands |-> {dataset.band}, masked |-> dataset.nodata]

\* dict.pop(key) for a key of the dict.
Pop(d, key) == SelectSeq(d, LAMBDA kv : kv[1] # key)

\* The labels and the palette of the dataset without the no-data class.
WithoutNodata(d, nodata) == IF nodata = None THEN d ELSE Pop(d, nodata[1])

\* The arguments Dataset.sankify passes on to sankify, for the sorted years.
PassedOn(req, years) ==
    [fn |-> "sankify",
     image_list |-> Tuple([i \in 1..Len(years) |-> get_year(req.dataset, years[i])]),
     label_list |-> Some(Tuple([i \in 1..Len(years) |-> <<"int", years[i]>>])),
     labels |-> WithoutNodata(req.dataset.labels, req.dataset.nodata),
     band |-> req.dataset.band,
     palette |-> WithoutNodata(req.dataset.palette, req.dataset.nodata),
     region |-> Some(req.region),
     max_classes |-> req.max_classes]

\* The arguments of the call of sankify: those of the request, or those
\* Dataset.sankify passes on.
SankifyArgs(req) ==
    IF req.fn = "sankify" THEN req ELSE PassedOn(req, Sorted(Range(req.years)))

\* Dataset.sankify up to the call of sankify: the two checks of the years,
\* then one image fetched per year.
DatasetSankify ==
    /\ pc = "Dataset.sankify"
    /\ IF Len(request.years) < 2
       THEN /\ pc' = "raised"
            /\ error' = Exception("ValueError", "few years", <<>>, <<>>)
            /\ UNCHANGED effects
       ELSE IF HasDuplicates(request.years)
       THEN /\ pc' = "raised"
            /\ error' = Exception("ValueError", "duplicate years", <<>>, <<>>)
            /\ UNCHANGED effects
       ELSE /\ pc' = "sankify"
            /\ effects' = [effects EXCEPT !.fetched = Sorted(Range(request.years))]
            /\ UNCHANGED error
    /\ UNCHANGED <<request, reply, frame>>
    /\ UNCHANGED plotVars

\* ------------------------------------------------------------ sankify
\* label_list after the default and the conversion to strings.
LabelsOf(args) ==
    IF args.label_list = None
    THEN Tuple([i \in 1..Len(args.image_list) |-> Str(RangeList(Len(args.image_list))[i])])
    ELSE Tuple([i \in 1..Len(args.label_list[1]) |-> Str(args.label_list[1][i])])

\* The statements of sankify before the call of generate_sample_data, for the
\* arguments args and the converted labels label_list: the exception raised, or
\* none.  image_list[0] raises IndexError on an empty list.
Validate(args, label_list) ==
    IF args.region = None /\ args.image_list = <<>>
    THEN Exception("IndexError", "image_list[0]", <<>>, <<>>)
    ELSE IF Len(label_list) # Len(args.image_list)
    THEN Exception("ValueError", "number of labels", <<>>, <<>>)
    ELSE IF HasDuplicates(label_list)
    THEN Exception("ValueError", "duplicate labels", <<>>, <<>>)
    ELSE NoException

\* Exception e leaves sankify: it reaches the caller, or the except clause of
\* Dataset.sankify when that made the call.
Raised(e) ==
    /\ pc' = IF request.fn = "Dataset.sankify" THEN "except" ELSE "raised"
    /\ error' = e

\* sankify up to the call of generate_sample_data, which sends the sampling
\* request.
Sankify ==
    /\ pc = "sankify"
    /\ \E e \in {Validate(SankifyArgs(request), LabelsOf(SankifyArgs(request)))} :
           IF e.type # ""
           THEN Raised(e) /\ UNCHANGED effects
           ELSE /\ pc' = "getInfo"
                /\ effects' = [effects EXCEPT !.sampling = @ + 1]
                /\ UNCHANGED error
    /\ UNCHANGED <<request, reply, frame>>
    /\ UNCHANGED plotVars

\* ------------------------------------------------------------ the sampling service
\* The band names of the model, and the messages of the service's errors.  The
\* message about a missing band holds the name of the band.
BandNames == {<<"l", "c">>, <<"b">>}

RegionMessage ==
    <<"R", "e", "g", "i", "o", "n", " ", "m", "u", "s", "t", " ", "n", "o", "t", " ",
      "b", "e", " ", "e", "m", "p", "t", "y">>

TimeoutMessage == <<"t", "i", "m", "e", "d", " ", "o", "u", "t">>

MissingBandMessage(band) == <<"n", "o", " ", "k", "e", "y", " ">> \o band

\* The errors getInfo() can raise for a sampling request: a band that some
\* image lacks, an empty region, and a failure of the computation.
ServiceErrors(args) ==
    {MissingBandMessage(args.band) : x \in {i \in 1..Len(args.image_list) :
                                               args.band \notin args.image_list[i].bands}}
    \cup (IF args.region = Some("empty") THEN {RegionMessage} ELSE {})
    \cup {TimeoutMessage}

\* The values a pixel of the image can have: every class but the masked one.
Unmasked(image) == Codes \ Range(image.masked)

\* The values the labels L can come back with: for each label a value of its
\* image.
Values(label_list, image_list, L) ==
    {value \in [L -> Codes] :
        \A l \in L : value[l] \in Unmasked(image_list[ColPos(label_list, l)])}

\* The properties one sample point can come back with: a value for some of the
\* labels (a null value, as of a masked pixel, is no property), in any order.
Properties(label_list, image_list) ==
    UNION {UNION {{[i \in 1..Cardinality(L) |-> <<order[i], value[order[i]]>>] :
                       value \in Values(label_list, image_list, L)} : order \in Perms(L)} :
           L \in SUBSET Range(label_list)}

\* The answers of getInfo() when it raises nothing: the properties of up to
\* `points` sample points.
Features(label_list, image_list, points) ==
    SeqsUpTo(Properties(label_list, image_list), points)

\* ------------------------------------------------------------ generate_sample_data
\* utils.get_shared_bands: the bands every image has.
get_shared_bands(image_list) ==
    {b \in BandNames : \A i \in 1..Len(image_list) : b \in image_list[i].bands}

\* handle_sampling_error: the exception raised for the error message of the
\* service.
handle_sampling_error(message, band, image_list) ==
    IF Contains(message, band)
    THEN Exception("SamplingError", "band", <<band, get_shared_bands(image_list)>>, <<>>)
    ELSE IF Contains(message, RegionMessage)
    THEN Exception("SamplingError", "region", <<>>, <<>>)
    ELSE Exception("EEException", "", <<>>, message)

\* The columns of pd.DataFrame.from_dict(features): the keys, in the order in
\* which they first occur.
KeysOf(features) ==
    DropDuplicates(Flatten(Tuple([f \in 1..Len(features) |-> Tuple(Keys(features[f]))])))

\* The rows of the dataframe of the columns cols that dropna() keeps: those of
\* the sample points that have a value for every column.
CompleteRows(features, cols) ==
    SelectSeq(features, LAMBDA f : \A c \in 1..Len(cols) : HasKey(f, cols[c]))

RowsOf(features, cols) ==
    Tuple([r \in 1..Len(features) |-> Tuple([c \in 1..Len(cols) |-> Get(features[r], cols[c])])])

\* pd.DataFrame.from_dict(features).dropna().astype(int)
DataFrameOf(features, cols) ==
    [columns |-> cols, data |-> RowsOf(CompleteRows(features, cols), cols)]

FromDict(features) == DataFrameOf(features, KeysOf(features))

\* getInfo() raises: handle_sampling_error raises in its turn.
GetInfoFails ==
    /\ pc = "getInfo"
    /\ \E message \in ServiceErrors(SankifyArgs(request)) :
           /\ reply' = [error |-> message, features |-> <<>>]
           /\ Raised(handle_sampling_error(message, SankifyArgs(request).band,
                                           SankifyArgs(request).image_list))
    /\ UNCHANGED <<request, frame, effects>>
    /\ UNCHANGED plotVars

\* getInfo() returns the sampled points, and the dataframe is built from them.
\* A request for a band some image lacks, or in an empty region, is not answered.
GetInfo ==
    /\ pc = "getInfo"
    /\ ServiceErrors(SankifyArgs(request)) = {TimeoutMessage}
    /\ \E features \in Features(LabelsOf(SankifyArgs(request)),
                                SankifyArgs(request).image_list, request.n) :
           /\ reply' = [error |-> <<>>, features |-> features]
           /\ frame' = FromDict(features)
    /\ pc' = "columns"
    /\ UNCHANGED <<request, error, effects>>
    /\ UNCHANGED plotVars

\* Mutation of FirstMissing: the first label is named whenever one is missing.
FirstLabelIfMissing(label_list, cols) ==
    IF \A i \in 1..Len(label_list) : label_list[i] \in Range(cols) THEN 0 ELSE 1

\* The position of the first label that is no column of the frame, 0 if none.
FirstMissing(label_list, cols) ==
    IF \A i \in 1..Len(label_list) : label_list[i] \in Range(cols) THEN 0
    ELSE CHOOSE i \in 1..Len(label_list) :
             /\ label_list[i] \notin Range(cols)
             /\ \A j \in 1..(i - 1) : label_list[j] \in Range(cols)

\* Mutation of Reindexed: the columns stay as the service sent them.
NotReindexed(fr, label_list) == fr

\* data.reindex(image_labels, axis=1): the columns image_labels, each with the
\* values of the column of that label.
Reindexed(fr, label_list) ==
    [columns |-> label_list,
     data |-> Tuple([r \in 1..Len(fr.data) |->
                  Tuple([c \in 1..Len(label_list) |-> fr.data[r][ColPos(fr.columns, label_list[c])]])])]

\* The check of the columns and the reindex.
CheckColumns(fr, label_list, missing) ==
    IF missing # 0
    THEN /\ Raised(Exception("SamplingError", "no samples", <<label_list[missing]>>, <<>>))
         /\ UNCHANGED frame
    ELSE /\ pc' = "include"
         /\ frame' = Reindexed(fr, label_list)
         /\ UNCHANGED error

Reindex ==
    /\ pc = "columns"
    /\ CheckColumns(frame, LabelsOf(SankifyArgs(request)),
                    FirstMissing(LabelsOf(SankifyArgs(request)), frame.columns))
    /\ UNCHANGED <<request, reply, effects>>
    /\ UNCHANGED plotVars

\* Mutation of RowsIn: a row is kept when any of its cells is among the values.
RowsWithAnyIn(d, values) == SelectSeq(d, LAMBDA row : \E c \in 1..Len(row) : row[c] \in values)

\* data[data.isin(values).all(axis=1)]
RowsIn(d, values) == SelectSeq(d, LAMBDA row : \A c \in 1..Len(row) : row[c] \in values)

\* include = list(labels.keys()), never None in a call from sankify.
Include ==
    /\ pc = "include"
    /\ frame' = [frame EXCEPT !.data = RowsIn(frame.data, Range(Keys(SankifyArgs(request).labels)))]
    /\ pc' = "max_classes"
    /\ UNCHANGED <<request, reply, error, effects>>
    /\ UNCHANGED plotVars

\* data.melt().value: the cells of the table.
Melted(d) == Flatten(d)

\* The number of cells that hold class c.
ValueCount(d, c) == Count(Melted(d), LAMBDA x : x = c)

\* data.melt().value.value_counts(): the classes of the table in descending
\* order of their counts; classes of equal count come in an order pandas does
\* not promise, so in any order.
ValueCounts(d) ==
    {order \in Perms(Range(Melted(d))) :
        \A i, j \in 1..Len(order) : i < j => ValueCount(d, order[i]) >= ValueCount(d, order[j])}

\* Mutation of Keep: the last classes of the list are kept.
KeepLast(class_counts, max_classes) ==
    SubSeq(class_counts, Len(class_counts) - Min(max_classes, Len(class_counts)) + 1,
           Len(class_counts))

\* class_counts[:max_classes].index.tolist(), for max_classes >= 0
Keep(class_counts, max_classes) == SubSeq(class_counts, 1, Min(max_classes, Len(class_counts)))

\* The max_classes filter, and the return of generate_sample_data.
MaxClasses ==
    /\ pc = "max_classes"
    /\ IF SankifyArgs(request).max_classes = None
       THEN UNCHANGED frame
       ELSE \E class_counts \in ValueCounts(frame.data) :
                frame' = [frame EXCEPT !.data =
                    RowsIn(frame.data, Range(Keep(class_counts, SankifyArgs(request).max_classes[1])))]
    /\ pc' = "SankeyPlot"
    /\ UNCHANGED <<request, reply, error, effects>>
    /\ UNCHANGED plotVars

\* ------------------------------------------------------------ SankeyPlot(...) at the end of sankify
\* The rank of a period label in the order of the strings.  The labels of the
\* model are "0", "1", ... of range() or four-digit years, never both in one
\* call, and such strings are in the order of their numbers.
PeriodRank(label) == label[2]

\* The arguments of SankeyPlot: the sampled table, the labels and the palette.
PlotInput(args, fr) ==
    [columns |-> Tuple([c \in 1..Len(fr.columns) |-> PeriodRank(fr.columns[c])]),
     data |-> fr.data, labels |-> args.labels, palette |-> args.palette]

\* The first class of the grouped edges g that is no key of lab, as the lookups
\* self.labels[k] meet them: the sources of all the edges, then the targets; 0
\* if every class is a key.
MissingKey(g, lab) ==
    IF \E i \in 1..Len(g) : ~HasKey(lab, g[i].source)
    THEN g[CHOOSE i \in 1..Len(g) :
               ~HasKey(lab, g[i].source) /\ \A j \in 1..(i - 1) : HasKey(lab, g[j].source)].source
    ELSE IF \E i \in 1..Len(g) : ~HasKey(lab, g[i].target)
    THEN g[CHOOSE i \in 1..Len(g) :
               ~HasKey(lab, g[i].target) /\ \A j \in 1..(i - 1) : HasKey(lab, g[j].target)].target
    ELSE 0

\* SankeyPlot.__init__ for the arguments `in`, m being the merged data, labels
\* and palette and missing the class whose label is looked up in vain.
Build(in, m, missing) ==
    IF missing # 0
    THEN /\ Raised(Exception("KeyError", "", <<missing>>, <<>>))
         /\ UNCHANGED plotVars
    ELSE /\ pc' = "plotted"
         /\ UNCHANGED error
         /\ raw' = in
         /\ columns' = in.columns
         /\ data' = m.data
         /\ labels' = m.labels
         /\ palette' = m.palette
         /\ hide' = <<>>
         /\ df' = generate_dataframe(Static')
         /\ plot' = SankeyOf(Static', df')
         /\ buttons' = MakeButtons(Static', df')
         /\ last' = "init"
         /\ clicks' = 0
         /\ UNCHANGED <<observed, recording, err>>

Merge(in, m) == Build(in, m, MissingKey(Grouped(PermutationList(m.data, in.columns)), m.labels))

Plot ==
    /\ pc = "SankeyPlot"
    /\ \E in \in {PlotInput(SankifyArgs(request), frame)} :
           Merge(in, merge_duplicate_classes(in.data, in.labels, in.palette))
    /\ UNCHANGED <<request, reply, frame, effects>>

\* ------------------------------------------------------------ the calls of the model
\* The images 1..n with the given bands, no pixel masked.
ImageLists(n, bandSets) ==
    {[i \in 1..n |-> [id |-> i, bands |-> b[i], masked |-> None]] : b \in [1..n -> bandSets]}

\* A dict that gives each of the keys itself as value.
IdentityOn(keys) == [i \in 1..Len(keys) |-> <<keys[i], keys[i]>>]

LabelValues == {<<"int", 2001>>, <<"str", 2001>>, <<"str", 2002>>}

Years == {2001, 2002, 2003}

ClassMaps == {IdentityOn(<<1, 2>>), IdentityOn(<<1, 2, 3>>)}

SankifyCall(image_list, label_list, region, band, lab, pal, max_classes, n) ==
    [fn |-> "sankify", image_list |-> image_list, label_list |-> label_list,
     region |-> region, band |-> band, labels |-> lab, palette |-> pal,
     max_classes |-> max_classes, n |-> n]

\* Calls that differ in the images, the labels and the region.
ValidationCalls ==
    {SankifyCall(image_list, label_list, region, <<"l", "c">>, IdentityOn(<<1, 2, 3>>),
                 IdentityOn(<<1, 2, 3>>), None, 1) :
        image_list \in UNION {ImageLists(k, {{<<"l", "c">>}}) : k \in 0..MaxImages},
        label_list \in {None} \cup {Some(l) : l \in SeqsUpTo(LabelValues, MaxImages)},
        region \in {None, Some("valid")}}

\* Calls that differ in the band, the bands of the images and the region.
ServiceCalls ==
    {SankifyCall(image_list, None, region, band, IdentityOn(<<1, 2, 3>>),
                 IdentityOn(<<1, 2, 3>>), None, 1) :
        image_list \in ImageLists(MaxImages, (SUBSET BandNames) \ {{}}),
        region \in {None, Some("empty"), Some("valid")},
        band \in BandNames}

\* Calls that differ in the labels, the palette and max_classes.
FilterCalls ==
    {SankifyCall(image_list, label_list, Some("valid"), <<"l", "c">>, lab, pal, max_classes,
                 MaxPoints) :
        image_list \in ImageLists(MaxImages, {{<<"l", "c">>}}),
        label_list \in {None, Some(<<<<"str", 2002>>, <<"int", 2001>>>>)},
        lab \in ClassMaps, pal \in ClassMaps,
        max_classes \in {None} \cup {Some(k) : k \in 0..(NumCodes - 1)}}

\* Calls of Dataset.sankify of a dataset with or without a no-data class.
DatasetCalls ==
    {[fn |-> "Dataset.sankify",
      dataset |-> [band |-> <<"l", "c">>, labels |-> IdentityOn(<<1, 2, 3>>),
                   palette |-> IdentityOn(<<1, 2, 3>>), years |-> of,
                   nodata |-> nodata],
      years |-> years, region |-> "valid", max_classes |-> None, n |-> 1] :
        years \in SeqsUpTo(Years, MaxYears), nodata \in {None, Some(3)},
        of \in {<<2001, 2002, 2003>>, <<2002>>}}

Calls == ValidationCalls \cup ServiceCalls \cup FilterCalls \cup DatasetCalls

\* No plot exists yet.
NoPlot ==
    /\ raw = <<>>
    /\ columns = <<>>
    /\ data = <<>>
    /\ labels = <<>>
    /\ palette = <<>>
    /\ hide = <<>>
    /\ df = <<>>
    /\ buttons = <<>>
    /\ plot = EmptySankey
    /\ observed = <<>>
    /\ recording = FALSE
    /\ last = "none"
    /\ clicks = 0
    /\ err = FALSE

InitSankify ==
    /\ request \in Calls
    /\ pc = request.fn
    /\ reply = [error |-> <<>>, features |-> <<>>]
    /\ frame = [columns |-> <<>>, data |-> <<>>]
    /\ error = NoException
    /\ effects = NoEffects
    /\ NoPlot

\* ------------------------------------------------------------ Dataset.sankify, except
\* The years asked for that are not among the years of the dataset.
missing_years(req) == Range(req.years) \ Range(req.dataset.years)

\* Mutation of Reraised: the error lists the first of the missing years.
ReraisedOne(req, e) ==
    IF missing_years(req) # {}
    THEN Exception("ValueError", "missing years", <<Sorted(missing_years(req))[1]>>, <<>>)
    ELSE e

\* The except clause around the call of sankify: a ValueError that lists the
\* missing years in ascending order if there are any, else the error caught.
Reraised(req, e) ==
    IF missing_years(req) # {}
    THEN Exception("ValueError", "missing years", Sorted(missing_years(req)), <<>>)
    ELSE e

Except ==
    /\ pc = "except"
    /\ pc' = "raised"
    /\ error' = Reraised(request, error)
    /\ UNCHANGED <<request, reply, frame, effects>>
    /\ UNCHANGED plotVars

NextSankify ==
    \/ DatasetSankify
    \/ Sankify
    \/ GetInfoFails
    \/ GetInfo
    \/ Reindex
    \/ Include
    \/ MaxClasses
    \/ Plot
    \/ Except

SpecSankify == InitSankify /\ [][NextSankify]_vars

\* ------------------------------------------------------------ what a call asks for
\* The following is stated from the arguments of the call and the answer of
\* the service.

\* The arguments sankify is called with.
Args == SankifyArgs(request)

\* sankify has raised: to its caller, or to Dataset.sankify that called it.
Raises(p) == p = (IF request.fn = "Dataset.sankify" THEN "except" ELSE "raised")

\* The number of labels of the call, and the label of the i-th image as a
\* string: "0", "1", ... when no label list is given.
NumLabelsGiven == IF Args.label_list = None THEN Len(Args.image_list) ELSE Len(Args.label_list[1])

LabelString(i) == IF Args.label_list = None THEN <<"str", i - 1>> ELSE <<"str", Args.label_list[1][i][2]>>

\* Two labels of the call are written with the same characters.
LabelsClash == \E i, j \in 1..NumLabelsGiven : i # j /\ LabelString(i) = LabelString(j)

\* The sample points that came back with a value for every label.
CompletePoints == SelectSeq(reply.features, LAMBDA f : Len(f) = NumLabelsGiven)

\* The table of those points, one column per image in the order of the images.
SampledTable ==
    [r \in 1..Len(CompletePoints) |->
        [i \in 1..NumLabelsGiven |-> Get(CompletePoints[r], LabelString(i))]]

\* The rows of table d whose every cell is in S.
RowsWithin(d, S) == SelectSeq(d, LAMBDA row : \A c \in 1..Len(row) : row[c] \in S)

\* The classes of table d, and the number of cells of d that hold class c.
ClassesOf(d) == {d[r][c] : r \in 1..Len(d), c \in 1..NumLabelsGiven}

CellsWith(d, c) == Cardinality({x \in (1..Len(d)) \X (1..NumLabelsGiven) : d[x[1]][x[2]] = c})

\* ------------------------------------------------------------ C12
\* C12 as stated: whenever the number of labels differs from the number of
\* images, or two labels are the same string, sankify raises a ValueError and
\* no sampling call is made.
C12_BadLabelsRaiseValueError ==
    [][(pc = "sankify" /\ (NumLabelsGiven # Len(Args.image_list) \/ LabelsClash)) =>
           (Raises(pc') /\ error'.type = "ValueError" /\ effects'.sampling = 0)]_vars

\* ------------------------------------------------------------ C13
\* C13: Dataset.sankify raises a ValueError when fewer than two years are given
\* and when a year is given twice, with no image fetched and no sampling call
\* made.
C13_BadYearsRaiseBeforeFetch ==
    [][(pc = "Dataset.sankify"
        /\ (Len(request.years) < 2
            \/ \E i, j \in 1..Len(request.years) : i # j /\ request.years[i] = request.years[j])) =>
           (/\ pc' = "raised"
            /\ error'.type = "ValueError"
            /\ effects'.fetched = <<>>
            /\ effects'.sampling = 0)]_vars

\* Three years, the first given again as the third, were refused.
C13_Witness ==
    /\ request.fn = "Dataset.sankify"
    /\ Len(request.years) = 3
    /\ request.years[1] = request.years[3]
    /\ request.years[1] # request.years[2]
    /\ pc = "raised"
    /\ error.what = "duplicate years"

\* ------------------------------------------------------------ C14
\* C14 as stated: a direct call of sankify with fewer than two images raises a
\* ValueError and no sampling call is made.
C14_FewImagesAreRejected ==
    [][(pc = "sankify" /\ request.fn = "sankify" /\ Len(Args.image_list) < 2) =>
           (pc' = "raised" /\ error'.type = "ValueError" /\ effects'.sampling = 0)]_vars

\* ------------------------------------------------------------ C15
\* C15: once generate_sample_data has arranged the columns, the table has one
\* column per image, labelled and ordered as the images are, and under each
\* label the values sampled for it, whatever the order of the properties in the
\* answer of the service.
C15_ColumnsFollowImages ==
    /\ pc \in {"include", "max_classes", "SankeyPlot"} =>
           /\ Len(frame.columns) = Len(Args.image_list)
           /\ \A i \in 1..Len(frame.columns) : frame.columns[i] = LabelString(i)
    /\ pc = "include" => frame.data = SampledTable

\* The table is returned, it has a row, and the service sent the properties of
\* some complete point in another order than that of the images.
C15_Witness ==
    /\ pc = "SankeyPlot"
    /\ frame.data # <<>>
    /\ \E r \in 1..Len(CompletePoints) :
           /\ Len(CompletePoints[r]) = 2
           /\ CompletePoints[r][1][1] = LabelString(2)
           /\ CompletePoints[r][1][2] # CompletePoints[r][2][2]

\* ------------------------------------------------------------ C16
\* The labels of the call that are no column of the extracted table.
AbsentLabels == {LabelString(i) : i \in 1..NumLabelsGiven} \ Range(frame.columns)

\* C16: if a label of the call is no column of the extracted table, sampling
\* raises a SamplingError that names an absent label and returns no table.
C16_AbsentPeriodRaises ==
    [][(pc = "columns" /\ AbsentLabels # {}) =>
           (/\ Raises(pc')
            /\ error'.type = "SamplingError"
            /\ error'.what = "no samples"
            /\ Len(error'.names) = 1
            /\ error'.names[1] \in AbsentLabels)]_vars

\* Points came back, none with a value for the first image.
C16_Witness ==
    /\ pc = "raised"
    /\ error.what = "no samples"
    /\ reply.features # <<>>
    /\ NumLabelsGiven = 2
    /\ error.names = <<LabelString(1)>>
    /\ LabelString(2) \in Range(frame.columns)

\* ------------------------------------------------------------ C17
\* C17 as stated: an error of the sampling call is raised to the caller; for
\* a missing band as a SamplingError that names the band and the bands common
\* to all images, for an empty region as a SamplingError about the region, and
\* any other error unchanged; no table is made of the answer.
C17_ServiceErrorsAreClassified ==
    [][(pc = "getInfo" /\ reply'.error # <<>>) =>
           (/\ Raises(pc')
            /\ frame' = frame
            /\ reply'.error = MissingBandMessage(Args.band) =>
                   error' = Exception("SamplingError", "band",
                                      <<Args.band,
                                        {b \in BandNames : \A i \in 1..Len(Args.image_list) :
                                             b \in Args.image_list[i].bands}>>, <<>>)
            /\ reply'.error = RegionMessage =>
                   (error'.type = "SamplingError" /\ error'.what = "region")
            /\ reply'.error = TimeoutMessage =>
                   error' = Exception("EEException", "", <<>>, TimeoutMessage))]_vars

\* ------------------------------------------------------------ C18
\* The class codes of the sampled table that are no key of the label map or no
\* key of the palette.
UndefinedCodes ==
    ClassesOf(SampledTable) \ (Range(Keys(Args.labels)) \cap Range(Keys(Args.palette)))

\* C18 as stated: when the sampled table holds a class code that is no key of
\* the label map or no key of the palette, no plot is produced and the error
\* raised lists every such code in ascending order.
C18_UndefinedCodesAreReported ==
    (pc \in {"plotted", "raised"} /\ CompletePoints # <<>> /\ UndefinedCodes # {}) =>
        (pc = "raised" /\ error.names = Sorted(UndefinedCodes))

\* ------------------------------------------------------------ C19
\* C19: the include filter keeps exactly the rows whose every cell is a key of
\* the label map and raises nothing, and from then on every cell of the table,
\* and of the table the plot stores, is a key of the label map.
C19_UndefinedCodesAreDropped ==
    [][/\ pc = "include" =>
              (/\ pc' = "max_classes"
               /\ frame'.data = RowsWithin(SampledTable, Range(Keys(Args.labels)))
               /\ error' = error)
       /\ pc' \in {"max_classes", "SankeyPlot"} =>
              \A r \in 1..Len(frame'.data) : \A c \in 1..Len(frame'.data[r]) :
                  frame'.data[r][c] \in Range(Keys(Args.labels))
       /\ pc' = "plotted" =>
              \A r \in 1..Len(data') : \A c \in 1..Len(data'[r]) :
                  data'[r][c] \in Range(Keys(Args.labels))]_vars

\* Of two sampled rows the one with a class that has no label was dropped, and
\* the plot was built of the other.
C19_Witness ==
    /\ pc = "plotted"
    /\ Len(SampledTable) = 2
    /\ Len(data) = 1
    /\ Args.max_classes = None
    /\ \E r \in 1..2 : \E c, k \in 1..2 :
           /\ SampledTable[r][c] \notin Range(Keys(Args.labels))
           /\ SampledTable[r][k] \in Range(Keys(Args.labels))

\* ------------------------------------------------------------ C20
\* C20: with max_classes = k the filter keeps exactly the rows whose every cell
\* holds one of k most frequent classes of the table it is given (all of them
\* if there are fewer than k), a class counting once for every cell that holds
\* it in any column; so at most k classes remain.
C20_MaxClassesKeepsLargest ==
    [][(pc = "max_classes" /\ Args.max_classes # None) =>
           (/\ pc' = "SankeyPlot"
            /\ \E K \in SUBSET ClassesOf(frame.data) :
                   /\ Cardinality(K) = Min(Args.max_classes[1], Cardinality(ClassesOf(frame.data)))
                   /\ \A a \in K : \A b \in ClassesOf(frame.data) \ K :
                          CellsWith(frame.data, a) >= CellsWith(frame.data, b)
                   /\ frame'.data = RowsWithin(frame.data, K)
            /\ Cardinality(ClassesOf(frame'.data)) <= Args.max_classes[1])]_vars

\* With max_classes = 1, of two rows with labelled classes one was dropped.
C20_Witness ==
    /\ pc = "SankeyPlot"
    /\ Args.max_classes = Some(1)
    /\ Len(RowsWithin(SampledTable, Range(Keys(Args.labels)))) = 2
    /\ Len(frame.data) = 1

\* ------------------------------------------------------------ C23
\* The number of observations of class c: the cells of the retained table, over
\* all the periods, that hold c.
Observations(c) ==
    SumSeq([k \in 1..Len(columns) |-> RowsWith(Retained(data, Hidden), k, c)])

\* C23 as stated: _get_sorted_classes returns every class of the displayed
\* edges exactly once, in descending order of the number of observations of the
\* class in the retained table, with two periods and with three.
C23_SortedByObservations ==
    /\ Range(get_sorted_classes(df)) =
           {df[i].source : i \in 1..Len(df)} \cup {df[i].target : i \in 1..Len(df)}
    /\ \A i, j \in 1..Len(get_sorted_classes(df)) :
           /\ i # j => get_sorted_classes(df)[i] # get_sorted_classes(df)[j]
           /\ i < j => Observations(get_sorted_classes(df)[i]) >=
                           Observations(get_sorted_classes(df)[j])

\* ------------------------------------------------------------ C24
\* The position, among the columns of the table, of the period of node n.
PeriodIndex(n) == CHOOSE c \in 1..Len(columns) : columns[c] = n.customdata

\* C24 as stated: the node ids are grouped by period in column order, whatever
\* the period labels are: a node of an earlier column has a smaller id than a
\* node of a later column, the node with id 0 is of the first column, and the
\* list of the period labels of the nodes is the column sequence, each period
\* repeated once per node.
C24_NodesFollowColumnOrder ==
    /\ \A i, j \in 1..Len(plot.node) :
           /\ PeriodIndex(plot.node[i]) < PeriodIndex(plot.node[j]) =>
                  plot.node[i].id < plot.node[j].id
           /\ i < j => PeriodIndex(plot.node[i]) <= PeriodIndex(plot.node[j])
    /\ \A i \in 1..Len(plot.node) : plot.node[i].id = 0 => PeriodIndex(plot.node[i]) = 1

\* ------------------------------------------------------------ C25
\* C25 as stated: after any toggles and resets the hidden classes are the
\* classes whose own button is off, also when two classes carry one label with
\* two colors.
C25_HiddenAreTheButtonsOff ==
    Hidden = {buttons[b].class : b \in {k \in 1..Len(buttons) : ~buttons[k].state}}

\* ------------------------------------------------------------ C26
\* C26 as stated: after the merge of duplicate classes every class that is
\* kept has the label and the color it was given, whatever the key order of the
\* label map and of the palette.
C26_MergeKeepsLabelAndColor ==
    /\ Range(Keys(palette)) = Range(Keys(labels))
    /\ \A i \in 1..Len(labels) :
           /\ labels[i][2] = Get(raw.labels, labels[i][1])
           /\ Get(palette, labels[i][1]) = Get(raw.palette, labels[i][1])

\* ------------------------------------------------------------ the labels of the nodes
\* f"{x:.0%}" for x = count / total: the nearest whole percent.
Percent(count, total) == (200 * count + total) \div (2 * total)

\* all_classes["label"] of node n for a label_type: the label of its class,
\* its share of the year's count, or its count; "" if there is no label_type.
node_label(self, n, label_type) ==
    IF label_type = "class" THEN <<"class", Get(self.labels, n.class)>>
    ELSE IF label_type = "percent" THEN <<"percent", Percent(n.count, n.year_count)>>
    ELSE IF label_type = "count" THEN <<"count", n.count>>
    ELSE <<"">>

\* ------------------------------------------------------------ C27
\* The number of retained rows with the class of node n in the period of n.
RetainedWith(n) ==
    RowsWith(Retained(data, Hidden), CHOOSE c \in 1..Len(columns) : columns[c] = n.customdata,
             n.class)

\* C27 as stated: in every state hide and show reach, the "count" label of a
\* displayed node is the number of retained rows with its class in its period,
\* and the "percent" label is that number as a share of the retained rows.
C27_NodeLabelsCountRetainedRows ==
    \A i \in 1..Len(plot.node) :
        /\ node_label(Static, plot.node[i], "count") = <<"count", RetainedWith(plot.node[i])>>
        /\ node_label(Static, plot.node[i], "percent") =
               <<"percent", Percent(RetainedWith(plot.node[i]), Len(Retained(data, Hidden)))>>

\* ------------------------------------------------------------ C28
\* The sum of the values of the links of the plot from a node of the period of
\* column c to a node of the period of column k.
FlowBetween(c, k) ==
    SumSeq([i \in 1..Len(plot.link) |->
        IF /\ plot.node[plot.link[i].source + 1].customdata = columns[c]
           /\ plot.node[plot.link[i].target + 1].customdata = columns[k]
        THEN plot.link[i].value ELSE 0])

\* The sum of the values of the links that enter, and that leave, the n-th node.
FlowInto(n) ==
    SumSeq([i \in 1..Len(plot.link) |->
        IF plot.link[i].target + 1 = n THEN plot.link[i].value ELSE 0])

FlowOutOf(n) ==
    SumSeq([i \in 1..Len(plot.link) |->
        IF plot.link[i].source + 1 = n THEN plot.link[i].value ELSE 0])

\* C28: flow is conserved in every diagram: for every pair of adjacent periods
\* the link values add up to the number of retained rows, and for every node
\* of an interior period the values of the links that enter it and of those
\* that leave it both add up to the number of retained rows with the class of
\* the node in its period.
C28_FlowIsConserved ==
    /\ \A c \in 1..(Len(columns) - 1) : FlowBetween(c, c + 1) = Len(Retained(data, Hidden))
    /\ \A n \in 1..Len(plot.node) :
           PeriodIndex(plot.node[n]) \in 2..(Len(columns) - 1) =>
               /\ FlowInto(n) = RetainedWith(plot.node[n])
               /\ FlowOutOf(n) = RetainedWith(plot.node[n])

\* After a click, a node of the middle period of three that two links enter
\* and two links leave.
C28_Witness ==
    /\ last = "toggle"
    /\ Len(columns) = 3
    /\ \E n \in 1..Len(plot.node) :
           /\ PeriodIndex(plot.node[n]) = 2
           /\ Cardinality({i \in 1..Len(plot.link) : plot.link[i].target + 1 = n}) = 2
           /\ Cardinality({i \in 1..Len(plot.link) : plot.link[i].source + 1 = n}) = 2

\* ------------------------------------------------------------ C29
\* C29: the node ids of a plot are 0..N-1; the node arrays hold at position i
\* the period, the class label and the palette color of the (period, class)
\* pair with id i, no pair twice; and the i-th link runs from the node of the
\* source period and source class of the i-th edge to the node of its target
\* period and target class, with the palette color of the source class.
C29_ArraysAreIndexedByNodeId ==
    /\ \A i \in 1..Len(plot.node) :
           /\ plot.node[i].id = i - 1
           /\ plot.node[i].color = Get(palette, plot.node[i].class)
           /\ node_label(Static, plot.node[i], "class") = <<"class", Get(labels, plot.node[i].class)>>
           /\ \A j \in 1..Len(plot.node) :
                  (plot.node[i].customdata = plot.node[j].customdata
                   /\ plot.node[i].class = plot.node[j].class) => i = j
    /\ plot.link # <<>> => Len(plot.link) = Len(df)
    /\ \A i \in 1..Len(plot.link) :
           /\ plot.link[i].source \in 0..(Len(plot.node) - 1)
           /\ plot.link[i].target \in 0..(Len(plot.node) - 1)
           /\ plot.node[plot.link[i].source + 1].customdata = df[i].source_year
           /\ plot.node[plot.link[i].source + 1].class = df[i].source
           /\ plot.node[plot.link[i].target + 1].customdata = df[i].target_year
           /\ plot.node[plot.link[i].target + 1].class = df[i].target
           /\ plot.link[i].color = Get(palette, df[i].source)

\* Three periods whose labels do not ascend, and a link between two nodes of
\* one class.
C29_Witness ==
    /\ Len(columns) = 3
    /\ columns # <<1, 2, 3>>
    /\ \E i \in 1..Len(plot.link) :
           /\ plot.link[i].source > plot.link[i].target
           /\ plot.node[plot.link[i].source + 1].class = plot.node[plot.link[i].target + 1].class

\* ------------------------------------------------------------ C30
\* C30: hide, show and reset leave the stored table, the label map and the
\* palette as the construction of the plot stored them: the edges are derived
\* from a copy of the table.
C30_StoredTableIsKept ==
    /\ columns = raw.columns
    /\ data = merge_duplicate_classes(raw.data, raw.labels, raw.palette).data
    /\ labels = merge_duplicate_classes(raw.data, raw.labels, raw.palette).labels
    /\ palette = merge_duplicate_classes(raw.data, raw.labels, raw.palette).palette

\* Two classes are hidden, and of three stored rows one is displayed.
C30_Witness ==
    /\ last = "toggle"
    /\ Len(hide) = 2
    /\ Len(data) = 3
    /\ Len(Retained(data, Hidden)) = 1
    /\ plot.link # <<>>

\* ------------------------------------------------------------ C22
\* The years asked of the dataset that are not among its years.
MissingYears == {y \in Range(request.years) : y \notin Range(request.dataset.years)}

\* C22: when the call of sankify that Dataset.sankify makes raises and some
\* year asked for is not among the years of the dataset, Dataset.sankify raises
\* a ValueError that lists every such year, in ascending order; when every
\* year asked for is among the years of the dataset, it raises the error it
\* caught, unchanged.
C22_MissingYearsAreListed ==
    [][pc = "except" =>
           /\ pc' = "raised"
           /\ MissingYears # {} =>
                  /\ error'.type = "ValueError"
                  /\ Range(error'.names) = MissingYears
                  /\ \A i, j \in 1..Len(error'.names) : i < j => error'.names[i] < error'.names[j]
           /\ MissingYears = {} => error' = error]_vars

\* Two missing years, asked for in descending order, were listed.
C22_Witness ==
    /\ request.fn = "Dataset.sankify"
    /\ pc = "raised"
    /\ error.what = "missing years"
    /\ Len(error.names) = 2
    /\ \E i, j \in 1..Len(request.years) :
           i < j /\ request.years[i] = error.names[2] /\ request.years[j] = error.names[1]

\* ------------------------------------------------------------ C21
\* The table a direct call of sankify samples for the years `years`, labelled
\* by the years, from the points the service returned: a column per year in
\* the order given, and the rows whose classes all have a label.
DirectTable(years) ==
    RowsWithin([r \in 1..Len(CompletePoints) |->
                   [i \in 1..Len(years) |-> Get(CompletePoints[r], <<"str", years[i]>>)]],
               Range(Keys(request.dataset.labels)))

\* The plot SankeyPlot builds of a table with the columns cols and of the maps
\* of the dataset.
PlotOfSelf(self) == SankeyOf(self, generate_dataframe(self))

PlotOfMerged(cols, m) ==
    PlotOfSelf([data |-> m.data, columns |-> cols, labels |-> m.labels,
                palette |-> m.palette, hide |-> <<>>])

DirectPlot(years) ==
    PlotOfMerged(years, merge_duplicate_classes(DirectTable(years), request.dataset.labels,
                                                request.dataset.palette))

\* The years of the request in ascending order.
YearsAscending ==
    CHOOSE ys \in Perms(Range(request.years)) :
        \A i, j \in 1..Len(ys) : i < j => ys[i] < ys[j]

====
